---- MODULE Spec2Model ----
(***************************************************************************)
(* State-machine model of the spreadsheet engine: Cell (cell.cpp), Formula *)
(* (formula.cpp), DependencyGraph and Sheet (sheet.cpp).                   *)
(***************************************************************************)
EXTENDS Integers, Sequences, FiniteSets, TLC

\* ------------------------------------------------------------------ bounds

\* Number of rows past the end of cells_ in which an out-of-range read of the
\* row storage may appear to hold a cell.
OobDepth == 1

\* Largest number of public calls issued on one sheet, when the calls range
\* over all of Positions and Texts (Spec).
MaxOps == 3

\* Largest number of public calls issued on one sheet, when the calls range
\* over two cells and the texts of the A1/A2 scenarios (SpecDeep).
MaxOpsDeep == 7

\* --------------------------------------------------------------- positions

MAX_ROWS == 16384
MAX_COLS == 16384

P(r, c) == [row |-> r, col |-> c]

A1 == P(0, 0)
B1 == P(0, 1)
C1 == P(0, 2)
A2 == P(1, 0)

\* Positions the calls are issued on.
Positions == {A1, B1, C1, A2}

\* Position::IsValid
IsValid(pos) ==
    /\ pos.row >= 0 /\ pos.col >= 0
    /\ pos.row < MAX_ROWS /\ pos.col < MAX_COLS

\* ------------------------------------------------------------------- texts
\* A text is a sequence of tokens: the formula sign, a number, a reference.

FORMULA_SIGN == [t |-> "=", n |-> 0, p |-> A1]
ESCAPE_SIGN == [t |-> "'", n |-> 0, p |-> A1]
Num(k) == [t |-> "num", n |-> k, p |-> A1]
Ref(pos) == [t |-> "ref", n |-> 0, p |-> pos]

\* Texts passed to SetCell: "", "2", "10", "=A1+3", "=X", "=A1+B1", "=B1+C1".
Texts ==
    {<<>>, <<Num(2)>>, <<Num(10)>>, <<FORMULA_SIGN, Ref(A1), Num(3)>>}
    \cup {<<FORMULA_SIGN, Ref(x)>> : x \in Positions}
    \cup {<<FORMULA_SIGN, Ref(A1), Ref(B1)>>, <<FORMULA_SIGN, Ref(B1), Ref(C1)>>}

\* The cells and texts of the longer runs: "", "2", "10", "=A1+3", "=A2".
DeepPositions == {A1, A2}
DeepTexts ==
    {<<>>, <<Num(2)>>, <<Num(10)>>, <<FORMULA_SIGN, Ref(A1), Num(3)>>,
     <<FORMULA_SIGN, Ref(A2)>>}

\* ------------------------------------------------------------------ values

NumV(k) == [t |-> "num", n |-> k, s |-> <<>>]
StrV(s) == [t |-> "str", n |-> 0, s |-> s]
ErrV(e) == [t |-> "err", n |-> 0, s |-> <<[t |-> e, n |-> 0, p |-> A1]>>]

NoCache == [has |-> FALSE, v |-> StrV(<<>>)]
Cached(v) == [has |-> TRUE, v |-> v]

\* ------------------------------------------------------------------- cells
\* A slot of cells_ holds a Cell (impl_, cache_) or nullptr.

nullptr == [kind |-> "null", body |-> <<>>, cache_ |-> NoCache]

\* Cell::Cell: EmptyImpl, no cached value
NewCell == [kind |-> "Empty", body |-> <<>>, cache_ |-> NoCache]

\* Cell::Set applied to a cell: picks the Impl from the text, leaves cache_
Set(cell, text) ==
    IF Len(text) = 0
    THEN [cell EXCEPT !.kind = "Empty", !.body = <<>>]
    ELSE IF text[1] = FORMULA_SIGN /\ Len(text) > 1
         THEN [cell EXCEPT !.kind = "Formula", !.body = Tail(text)]
         ELSE [cell EXCEPT !.kind = "Text", !.body = text]

\* FormulaAST::GetCells: the references of the expression, in order
RECURSIVE GetCells(_)
GetCells(body) ==
    IF body = <<>> THEN <<>>
    ELSE IF Head(body).t = "ref"
         THEN <<Head(body).p>> \o GetCells(Tail(body))
         ELSE GetCells(Tail(body))

\* std::unique: collapses adjacent duplicates
RECURSIVE Unique(_)
Unique(s) ==
    IF Len(s) <= 1 THEN s
    ELSE IF s[1] = s[2] THEN Unique(Tail(s))
         ELSE <<s[1]>> \o Unique(Tail(s))

\* Formula::GetReferencedCells
FormulaGetReferencedCells(body) == Unique(GetCells(body))

\* Cell::GetReferencedCells (Impl default: none; FormulaImpl: the formula's)
GetReferencedCells(cell) ==
    IF cell.kind = "Formula" THEN FormulaGetReferencedCells(cell.body) ELSE <<>>

\* Cell::ResetCache
ResetCache(cell) == [cell EXCEPT !.cache_ = NoCache]

Range(s) == {s[i] : i \in 1..Len(s)}

\* ------------------------------------------------------------------- sheet
\* The sheet's fields as one record: cells_ (rows of slots, row r at index
\* r + 1), printable_size_, and the graph's nodes_ (position -> Node).

Sheet(c, ps, n) == [cells_ |-> c, printable_size_ |-> ps, nodes_ |-> n]

Size(r, c) == [rows |-> r, cols |-> c]

Max(a, b) == IF a >= b THEN a ELSE b

\* Sheet::GetConcreteCell
GetConcreteCell(cells, pos) ==
    IF pos.row < Len(cells)
    THEN LET row == cells[pos.row + 1] IN
         IF pos.col < Len(row) THEN row[pos.col + 1] ELSE nullptr
    ELSE nullptr

\* std::vector::resize to a larger size: new slots are value-initialized
Resize(v, n, fill) == v \o [i \in 1..(n - Len(v)) |-> fill]

\* Sheet::PlaceCell
PlaceCell(S, pos, cell) ==
    LET cells1 == IF pos.row >= Len(S.cells_)
                  THEN Resize(S.cells_, pos.row + 1, <<>>)
                  ELSE S.cells_
        row == cells1[pos.row + 1]
        row1 == IF pos.col >= Len(row) THEN Resize(row, pos.col + 1, nullptr) ELSE row
        row2 == [row1 EXCEPT ![pos.col + 1] = cell]
    IN [S EXCEPT !.cells_ = [cells1 EXCEPT ![pos.row + 1] = row2],
                 !.printable_size_ =
                     Size(Max(S.printable_size_.rows, pos.row + 1),
                          Max(S.printable_size_.cols, pos.col + 1))]

\* ------------------------------------------------------------- evaluation

\* The operand a cell's value contributes to an expression (FormulaAST, cell
\* operand): a number as is, "" as 0, a numeric string as its number,
\* anything else raises #VALUE!, an error is raised again.
AsOperand(v) ==
    IF v.t = "num" THEN v
    ELSE IF v.t = "err" THEN v
    ELSE IF v.s = <<>> THEN NumV(0)
    ELSE IF Len(v.s) = 1 /\ v.s[1].t = "num" THEN NumV(v.s[1].n)
    ELSE ErrV("#VALUE!")

\* TextImpl::GetValue
TextGetValue(body) ==
    IF body # <<>> /\ body[1] = ESCAPE_SIGN THEN StrV(Tail(body)) ELSE StrV(body)

RECURSIVE CellGetValue(_, _, _), Execute(_, _, _, _)

\* Cell::GetValue on the cell at pos: the cached value, or the Impl's value,
\* which is then cached. Returns the cells with the caches it filled, and the
\* value. `stack` holds the cells whose evaluation is in progress.
CellGetValue(cells, pos, stack) ==
    LET cell == GetConcreteCell(cells, pos) IN
    IF cell.cache_.has THEN [cells |-> cells, v |-> cell.cache_.v]
    ELSE IF pos \in stack THEN [cells |-> cells, v |-> ErrV("overflow")]
    ELSE LET r == IF cell.kind = "Empty" THEN [cells |-> cells, v |-> StrV(<<>>)]
                  ELSE IF cell.kind = "Text"
                       THEN [cells |-> cells, v |-> TextGetValue(cell.body)]
                       ELSE Execute(cells, cell.body, 0, stack \cup {pos})
         IN [cells |-> [r.cells EXCEPT ![pos.row + 1][pos.col + 1].cache_ = Cached(r.v)],
             v |-> r.v]

\* Formula::Evaluate: FormulaAST::Execute over the operands, summed left to
\* right, with cell_value_getter for the references (0.0 for an absent cell);
\* a FormulaError raised on the way is the result.
Execute(cells, body, acc, stack) ==
    IF body = <<>> THEN [cells |-> cells, v |-> NumV(acc)]
    ELSE LET tok == Head(body) IN
         IF tok.t = "num" THEN Execute(cells, Tail(body), acc + tok.n, stack)
         ELSE LET cell_ == GetConcreteCell(cells, tok.p)
                  g == IF cell_ = nullptr
                       THEN [cells |-> cells, v |-> NumV(0)]
                       ELSE CellGetValue(cells, tok.p, stack)
                  x == AsOperand(g.v)
              IN IF x.t = "err" THEN [cells |-> g.cells, v |-> x]
                 ELSE Execute(g.cells, Tail(body), acc + x.n, stack)

\* --------------------------------------------------------- DependencyGraph
\* nodes_ maps a position to its Node; forward_ and backward_ hold the
\* positions of the nodes pointed to.

Node(cell) == [cell_ |-> cell, forward_ |-> {}, backward_ |-> {}]

\* DependencyGraph::Contains
Contains(nodes, cell) == cell \in DOMAIN nodes

\* DependencyGraph::AddCell
AddCell(nodes, cell) ==
    IF ~Contains(nodes, cell) THEN nodes @@ (cell :> Node(cell)) ELSE nodes

\* The assertions of AddDependency and RemoveDependency
EndsExist(nodes, from, to) == Contains(nodes, from) /\ Contains(nodes, to)

\* An AddDependency that records the edge at its source only.
AddDependencyForwardOnly(nodes, from, to) ==
    [nodes EXCEPT ![from].forward_ = @ \cup {to}]

\* DependencyGraph::AddDependency
AddDependency(nodes, from, to) ==
    LET n1 == [nodes EXCEPT ![from].forward_ = @ \cup {to}]
    IN [n1 EXCEPT ![to].backward_ = @ \cup {from}]

\* DependencyGraph::RemoveDependency
RemoveDependency(nodes, from, to) ==
    LET n1 == [nodes EXCEPT ![from].forward_ = @ \ {to}]
    IN [n1 EXCEPT ![to].backward_ = @ \ {from}]

\* DependencyGraph::RemoveCell
RemoveCell(nodes, cell) ==
    IF Contains(nodes, cell)
    THEN LET n1 == [q \in DOMAIN nodes |->
                      IF q \in nodes[cell].forward_
                      THEN [nodes[q] EXCEPT !.backward_ = @ \ {cell}] ELSE nodes[q]]
             n2 == [q \in DOMAIN nodes |->
                      IF q \in nodes[cell].backward_
                      THEN [n1[q] EXCEPT !.forward_ = @ \ {cell}] ELSE n1[q]]
         IN [q \in (DOMAIN nodes) \ {cell} |-> n2[q]]
    ELSE nodes

RECURSIVE check_node(_, _, _, _, _), check_loop(_, _, _, _, _, _)

\* The recursive lambda of CheckCyclicDependencies entered at `current`:
\* every outcome over the iteration orders of the unordered forward_ sets.
\* r is "true", "false", or "overflow" when the recursion enters a node it is
\* still inside of (it then repeats the same path without end).
check_node(nodes, start, current, verified, stack) ==
    check_loop(nodes, start, current, nodes[current].forward_, verified, stack)

\* The for loop of the lambda, with `todo` the nodes not yet iterated over.
check_loop(nodes, start, current, todo, verified, stack) ==
    IF todo = {} THEN {[r |-> "true", verified |-> verified]}
    ELSE UNION {
        LET rest == todo \ {next_node} IN
        IF next_node \in verified
        THEN check_loop(nodes, start, current, rest, verified, stack)
        ELSE IF next_node = start
        THEN {[r |-> "false", verified |-> verified]}
        ELSE IF next_node \in stack
        THEN {[r |-> "overflow", verified |-> verified]}
        ELSE UNION {
            IF sub.r # "true" THEN {sub}
            ELSE check_loop(nodes, start, current, rest,
                            sub.verified \cup {next_node}, stack)
            : sub \in check_node(nodes, start, next_node, verified,
                                 stack \cup {next_node}) }
        : next_node \in todo }

\* DependencyGraph::CheckCyclicDependencies: the results it can return
CheckCyclicDependencies(nodes, cell) ==
    {o.r : o \in check_node(nodes, cell, cell, {}, {})}

RECURSIVE reset_node(_, _, _, _, _), reset_loop(_, _, _, _, _, _)

\* A traversal that follows forward_ where ResetCache follows backward_.
reset_node_forward(nodes, current, verified, calls, stack) ==
    reset_loop(nodes, current, nodes[current].forward_, verified,
               Append(calls, nodes[current].cell_), stack)

\* The recursive lambda of DependencyGraph::ResetCache entered at `current`:
\* every outcome over the iteration orders of the unordered backward_ sets.
\* calls is the sequence of positions the reseter was invoked on so far.
reset_node(nodes, current, verified, calls, stack) ==
    reset_loop(nodes, current, nodes[current].backward_, verified,
               Append(calls, nodes[current].cell_), stack)

\* The for loop of the lambda, with `todo` the nodes not yet iterated over.
reset_loop(nodes, current, todo, verified, calls, stack) ==
    IF todo = {} THEN {[r |-> "done", verified |-> verified, calls |-> calls]}
    ELSE UNION {
        LET rest == todo \ {next_node} IN
        IF next_node \in verified
        THEN reset_loop(nodes, current, rest, verified, calls, stack)
        ELSE IF next_node \in stack
        THEN {[r |-> "overflow", verified |-> verified, calls |-> calls]}
        ELSE UNION {
            IF sub.r # "done" THEN {sub}
            ELSE reset_loop(nodes, current, rest, sub.verified \cup {next_node},
                            sub.calls, stack)
            : sub \in reset_node(nodes, next_node, verified, calls,
                                 stack \cup {next_node}) }
        : next_node \in todo }

\* DependencyGraph::ResetCache: the runs of the traversal from `cell`
GraphResetCache(nodes, cell) == reset_node(nodes, cell, {}, <<>>, {cell})

\* ------------------------------------------------------------------ Sheet
\* A call's outcome: the sheet it leaves (st), how it ended (res) and what it
\* read of cells_ out of range (oob). res is "ok", an exception ("invalid",
\* "self": line 148, "circular": line 195) or a fault that ends the program.

Outcome(S, res, oob) == [st |-> S, res |-> res, oob |-> oob]

Faults == {"assert_old_cell", "assert_dependency", "overflow_probe",
           "assert_reseter", "overflow_reset", "oob_fault", "overflow_value"}

\* What a call read of cells_ past its end: "none" (no such read), "empty"
\* (rows that looked empty) or "cell" (a row that looked to hold a cell).
Worse(a, b) ==
    IF "cell" \in {a, b} THEN "cell" ELSE IF "empty" \in {a, b} THEN "empty" ELSE "none"

RECURSIVE Rescan(_, _, _)

\* The rescan loops of ClearCell from row r down (lines 246-255): the sizes
\* it can leave. Row r of cells_ is read also when r is past the end of
\* cells_; what is read there is whatever the memory holds: a fault, a row
\* that looks empty, or one that looks to hold a cell in some column.
Rescan(cells, ps, r) ==
    IF r < 0 THEN {[res |-> "ok", size |-> Size(0, 0), oob |-> "none"]}
    ELSE IF r >= Len(cells)
    THEN {[res |-> "oob_fault", size |-> ps, oob |-> "empty"]}
         \cup {[res |-> "ok", size |-> Size(r + 1, c + 1), oob |-> "cell"] :
                 c \in IF r - Len(cells) < OobDepth THEN 0..ps.cols ELSE {}}
         \cup {[o EXCEPT !.oob = Worse(@, "empty")] : o \in Rescan(cells, ps, r - 1)}
    ELSE LET row == cells[r + 1]
             found == {c \in 0..ps.cols : c < Len(row) /\ row[c + 1] # nullptr}
         IN IF found # {}
            THEN {[res |-> "ok",
                   size |-> Size(r + 1, (CHOOSE c \in found : \A d \in found : d <= c) + 1),
                   oob |-> "none"]}
            ELSE Rescan(cells, ps, r - 1)

\* A ClearCell that also removes the node at pos, with its edges, from the
\* graph.
ClearValidRemovingNode(S, pos) ==
    LET S1 == [S EXCEPT !.nodes_ = RemoveCell(@, pos)] IN
    IF pos.row < Len(S.cells_) /\ pos.col < Len(S.cells_[pos.row + 1])
    THEN LET cells1 == [S.cells_ EXCEPT ![pos.row + 1][pos.col + 1] = nullptr]
             ps == S.printable_size_
         IN IF pos.row + 1 = ps.rows \/ pos.col + 1 = ps.cols
            THEN {Outcome([S1 EXCEPT !.cells_ = cells1, !.printable_size_ = o.size],
                          o.res, o.oob) : o \in Rescan(cells1, ps, ps.rows)}
            ELSE {Outcome([S1 EXCEPT !.cells_ = cells1], "ok", "none")}
    ELSE {Outcome(S1, "ok", "none")}

\* Sheet::ClearCell after ValidatePosition
ClearValid(S, pos) ==
    IF pos.row < Len(S.cells_) /\ pos.col < Len(S.cells_[pos.row + 1])
    THEN LET cells1 == [S.cells_ EXCEPT ![pos.row + 1][pos.col + 1] = nullptr]
             ps == S.printable_size_
         IN IF pos.row + 1 = ps.rows \/ pos.col + 1 = ps.cols
            THEN {Outcome([S EXCEPT !.cells_ = cells1, !.printable_size_ = o.size],
                          o.res, o.oob) : o \in Rescan(cells1, ps, ps.rows)}
            ELSE {Outcome([S EXCEPT !.cells_ = cells1], "ok", "none")}
    ELSE {Outcome(S, "ok", "none")}

\* Sheet::ClearCell
ClearCell(S, pos) ==
    IF ~IsValid(pos) THEN {Outcome(S, "invalid", "none")} ELSE ClearValid(S, pos)

RECURSIVE Materialize(_, _, _, _)

\* A first loop that places no empty cell at the absent referents.
MaterializeNone(S, pos, new_poses, new_empty_poses) ==
    [st |-> S, new_empty_poses |-> new_empty_poses, threw |-> pos \in Range(new_poses)]

\* The first loop of SetCell (lines 145-158) over new_poses: throws at a
\* reference to pos itself, places an empty cell at each absent referent met
\* before that.
Materialize(S, pos, new_poses, new_empty_poses) ==
    IF new_poses = <<>>
    THEN [st |-> S, new_empty_poses |-> new_empty_poses, threw |-> FALSE]
    ELSE LET next == Head(new_poses) IN
         IF next = pos
         THEN [st |-> S, new_empty_poses |-> new_empty_poses, threw |-> TRUE]
         ELSE IF GetConcreteCell(S.cells_, next) = nullptr
              THEN Materialize(PlaceCell(S, next, NewCell), pos, Tail(new_poses),
                               Append(new_empty_poses, next))
              ELSE Materialize(S, pos, Tail(new_poses), new_empty_poses)

RECURSIVE RemoveDependencies(_, _, _), AddDependencies(_, _, _), ClearCells(_, _)

\* for (next : old_poses) RemoveDependency(pos, next)  (lines 168-170)
RemoveDependencies(nodes, pos, poses) ==
    IF poses = <<>> THEN nodes
    ELSE RemoveDependencies(RemoveDependency(nodes, pos, Head(poses)), pos, Tail(poses))

\* for (next : poses) { AddCell(next); AddDependency(pos, next); }
\* (lines 177-180 and 190-193)
AddDependencies(nodes, pos, poses) ==
    IF poses = <<>> THEN nodes
    ELSE AddDependencies(AddDependency(AddCell(nodes, Head(poses)), pos, Head(poses)),
                         pos, Tail(poses))

\* for (next : new_empty_poses) ClearCell(next)  (lines 185-187)
ClearCells(S, poses) ==
    IF poses = <<>> THEN {Outcome(S, "ok", "none")}
    ELSE UNION { IF o.res # "ok" THEN {o}
                 ELSE {[o2 EXCEPT !.oob = Worse(o.oob, @)] :
                         o2 \in ClearCells(o.st, Tail(poses))}
                 : o \in ClearCell(S, Head(poses)) }

RECURSIVE Reseter(_, _)

\* The reseter callback (lines 199-204) applied along `calls`: the cells with
\* the caches reset, or "assert" at the first position that holds no cell.
Reseter(cells, calls) ==
    IF calls = <<>> THEN [cells |-> cells, res |-> "ok"]
    ELSE LET pos == Head(calls)
             cell_ == GetConcreteCell(cells, pos)
         IN IF cell_ = nullptr THEN [cells |-> cells, res |-> "assert_reseter"]
            ELSE Reseter([cells EXCEPT ![pos.row + 1][pos.col + 1] = ResetCache(cell_)],
                         Tail(calls))

\* A rollback that clears the slot at pos along with the empty cells it
\* placed.
RollbackClearingTarget(S, pos, new_empty_poses, old_poses) ==
    { IF o.res # "ok" THEN o
      ELSE Outcome([o.st EXCEPT !.nodes_ = AddDependencies(@, pos, old_poses)],
                   "circular", o.oob)
      : o \in ClearCells(S, Append(new_empty_poses, pos)) }

\* The rollback of SetCell (lines 184-195)
Rollback(S, pos, new_empty_poses, old_poses) ==
    { IF o.res # "ok" THEN o
      ELSE Outcome([o.st EXCEPT !.nodes_ = AddDependencies(@, pos, old_poses)],
                   "circular", o.oob)
      : o \in ClearCells(S, new_empty_poses) }

\* The cache reset and the final PlaceCell of SetCell (lines 198-212)
ResetAndPlace(S, pos, new_cell) ==
    { LET rs == Reseter(S.cells_, run.calls) IN
      IF rs.res # "ok" THEN Outcome(S, rs.res, "none")
      ELSE IF run.r # "done" THEN Outcome(S, "overflow_reset", "none")
      ELSE Outcome(PlaceCell([S EXCEPT !.cells_ = rs.cells], pos, new_cell), "ok", "none")
      : run \in GraphResetCache(S.nodes_, pos) }

\* A SetCell that skips the cycle probe and the cache reset also when the
\* graph had a node at pos, as it does for a position without a node.
SetValidNoProbe(S, pos, text) ==
    LET new_cell == Set(NewCell, text)
        new_poses == GetReferencedCells(new_cell)
        m == Materialize(S, pos, new_poses, <<>>)
        contained == Contains(S.nodes_, pos)
        old_cell == GetConcreteCell(m.st.cells_, pos)
        old_poses == IF contained THEN GetReferencedCells(old_cell) ELSE <<>>
        n1 == RemoveDependencies(m.st.nodes_, pos, old_poses)
        n2 == AddDependencies(AddCell(n1, pos), pos, new_poses)
        S2 == [m.st EXCEPT !.nodes_ = n2]
    IN IF m.threw THEN {Outcome(m.st, "self", "none")}
       ELSE IF contained /\ old_cell = nullptr
       THEN {Outcome(m.st, "assert_old_cell", "none")}
       ELSE {Outcome(PlaceCell(S2, pos, new_cell), "ok", "none")}

\* Sheet::SetCell after ValidatePosition
SetValid(S, pos, text) ==
    LET new_cell == Set(NewCell, text)
        new_poses == GetReferencedCells(new_cell)
        m == Materialize(S, pos, new_poses, <<>>)
        contained == Contains(S.nodes_, pos)
        old_cell == GetConcreteCell(m.st.cells_, pos)
        old_poses == IF contained THEN GetReferencedCells(old_cell) ELSE <<>>
        n1 == RemoveDependencies(m.st.nodes_, pos, old_poses)
        n2 == AddDependencies(AddCell(n1, pos), pos, new_poses)
        S2 == [m.st EXCEPT !.nodes_ = n2]
    IN IF m.threw THEN {Outcome(m.st, "self", "none")}
       ELSE IF contained /\ old_cell = nullptr
       THEN {Outcome(m.st, "assert_old_cell", "none")}
       ELSE IF \E next \in Range(old_poses) : ~EndsExist(m.st.nodes_, pos, next)
       THEN {Outcome(m.st, "assert_dependency", "none")}
       ELSE IF contained
       THEN UNION { IF probe = "overflow" THEN {Outcome(S2, "overflow_probe", "none")}
                    ELSE IF probe = "false"
                    THEN Rollback(S2, pos, m.new_empty_poses, old_poses)
                    ELSE ResetAndPlace(S2, pos, new_cell)
                    : probe \in CheckCyclicDependencies(n2, pos) }
       ELSE {Outcome(PlaceCell(S2, pos, new_cell), "ok", "none")}

\* Sheet::SetCell
SetCell(S, pos, text) ==
    IF ~IsValid(pos) THEN {Outcome(S, "invalid", "none")} ELSE SetValid(S, pos, text)

\* Sheet::GetCell(pos)->GetValue() on a present cell
GetValue(S, pos) ==
    LET g == CellGetValue(S.cells_, pos, {}) IN
    IF g.v = ErrV("overflow") THEN Outcome(S, "overflow_value", "none")
    ELSE Outcome([S EXCEPT !.cells_ = g.cells], "ok", "none")

\* ------------------------------------------------------------ state machine

VARIABLES
    cells_,            \* Sheet::cells_
    printable_size_,   \* Sheet::printable_size_
    nodes_,            \* DependencyGraph::nodes_ of Sheet::graph_
    last,              \* the last call: op, pos, text, res, oob, and cached:
                       \* the positions that held a cached value before it
    ops,               \* number of calls issued
    scope              \* what the calls of this run range over

vars == <<cells_, printable_size_, nodes_, last, ops, scope>>

\* The sheet of the current state
Cur == Sheet(cells_, printable_size_, nodes_)

\* The positions whose cell holds a cached value
CachedAt(cells) ==
    {pos \in Positions : GetConcreteCell(cells, pos).cache_.has}

Call(op, pos, text, o) ==
    [op |-> op, pos |-> pos, text |-> text, res |-> o.res, oob |-> o.oob,
     cached |-> CachedAt(cells_)]

\* Sheet::Sheet (CreateSheet): no rows, size {0, 0}, an empty graph
NewSheet ==
    /\ cells_ = <<>>
    /\ printable_size_ = Size(0, 0)
    /\ nodes_ = <<>>
    /\ last = [op |-> "CreateSheet", pos |-> A1, text |-> <<>>, res |-> "ok",
               oob |-> "none", cached |-> {}]
    /\ ops = 0

Init ==
    /\ NewSheet
    /\ scope = [positions |-> Positions, texts |-> Texts, maxops |-> MaxOps]

InitDeep ==
    /\ NewSheet
    /\ scope = [positions |-> DeepPositions, texts |-> DeepTexts, maxops |-> MaxOpsDeep]

\* The program runs on while no call has ended in a fault.
Running == last.res \notin Faults /\ ops < scope.maxops

Install(op, pos, text, o) ==
    /\ cells_' = o.st.cells_
    /\ printable_size_' = o.st.printable_size_
    /\ nodes_' = o.st.nodes_
    /\ last' = Call(op, pos, text, o)
    /\ ops' = ops + 1
    /\ UNCHANGED scope

\* A call of SetCell(pos, text)
SetCellCall ==
    /\ Running
    /\ \E pos \in scope.positions, text \in scope.texts :
         \E o \in SetCell(Cur, pos, text) : Install("SetCell", pos, text, o)

\* A call of ClearCell(pos)
ClearCellCall ==
    /\ Running
    /\ \E pos \in scope.positions :
         \E o \in ClearCell(Cur, pos) : Install("ClearCell", pos, <<>>, o)

\* A call of GetCell(pos)->GetValue() where GetCell returns a cell
GetValueCall ==
    /\ Running
    /\ \E pos \in scope.positions :
         /\ GetConcreteCell(cells_, pos) # nullptr
         /\ Install("GetValue", pos, <<>>, GetValue(Cur, pos))

Next == SetCellCall \/ ClearCellCall \/ GetValueCall

Spec == Init /\ [][Next]_vars

SpecDeep == InitDeep /\ [][Next]_vars

\* ---------------------------------------------------------------- notions

\* The edge set of the graph: (referrer, referent) pairs of forward_
Edges(nodes) ==
    UNION {{<<a, b>> : b \in nodes[a].forward_} : a \in DOMAIN nodes}

RECURSIVE Closure(_, _)

\* The positions reached from the set `seen` along the pairs of `rel`
Closure(rel, seen) ==
    LET more == seen \cup {e[2] : e \in {f \in rel : f[1] \in seen}}
    IN IF more = seen THEN seen ELSE Closure(rel, more)

\* A directed cycle of `rel` passes through p
CycleThrough(rel, p) ==
    p \in Closure(rel, {e[2] : e \in {f \in rel : f[1] = p}})

Present(cells, pos) == GetConcreteCell(cells, pos) # nullptr

\* The reference relation of the cells present in the grid
References(cells) ==
    UNION {{<<q, r>> : r \in Range(GetReferencedCells(GetConcreteCell(cells, q)))} :
             q \in {x \in Positions : Present(cells, x)}}

\* The reference relation of the grid with the cell at pos replaced by one
\* set from text
ReferencesWith(cells, pos, text) ==
    {e \in References(cells) : e[1] # pos}
    \cup {<<pos, r>> : r \in Range(GetReferencedCells(Set(NewCell, text)))}

\* Cell::GetText (FormulaImpl: "=" and the expression as printed)
GetText(cell) ==
    IF cell.kind = "Formula" THEN <<FORMULA_SIGN>> \o cell.body ELSE cell.body

\* Same slots present, same text in each
SameGrid(c1, c2) ==
    \A pos \in Positions :
        /\ Present(c1, pos) <=> Present(c2, pos)
        /\ GetText(GetConcreteCell(c1, pos)) = GetText(GetConcreteCell(c2, pos))

\* The bounding box of the present slots
BoundingBox(cells) ==
    LET here == {pos \in Positions : Present(cells, pos)} IN
    IF here = {} THEN Size(0, 0)
    ELSE Size((CHOOSE r \in {x.row : x \in here} : \A y \in here : y.row <= r) + 1,
              (CHOOSE c \in {x.col : x \in here} : \A y \in here : y.col <= c) + 1)

Rejected == last.op = "SetCell" /\ last.res = "circular"
Succeeded == last.op = "SetCell" /\ last.res = "ok"

\* ------------------------------------------------------------------ claims

\* C1: whenever SetCell(p, t) fails with circular-dependency after its cycle
\* probe, the edge set of the graph after the call equals the edge set
\* before the call.
C1_RollbackRestoresEdges ==
    [][(last'.op = "SetCell" /\ last'.res = "circular")
          => Edges(nodes_') = Edges(nodes_)]_vars

\* C2: SetCell(p, t) fails with circular-dependency only if installing the
\* new cell would close a cycle through p in the reference relation of the
\* cells present in the grid.
C2_RejectedOnlyForCycle ==
    [][(last'.op = "SetCell" /\ last'.res \in {"circular", "self"})
          => CycleThrough(ReferencesWith(cells_, last'.pos, last'.text), last'.pos)]_vars

\* C3: whenever SetCell(p, t) fails with circular-dependency after its cycle
\* probe, the same slots are present with the same texts as before the call,
\* and the printable size is the one before the call. Stated for the calls
\* whose reads past the end of cells_, if any, found no cell.
C3_RollbackRestoresGrid ==
    [][(last'.op = "SetCell" /\ last'.res = "circular" /\ last'.oob # "cell")
          => /\ SameGrid(cells_, cells_')
             /\ printable_size_' = printable_size_]_vars

\* C4: after a successful SetCell(p, t) no directed cycle of the graph passes
\* through p, whether or not the cycle probe ran.
C4_NoCycleThroughSetCell ==
    Succeeded => ~CycleThrough(Edges(nodes_), last.pos)

\* C4 witness: a successful SetCell at a position that other cells reference
\* (so the probe ran) with a text that references cells.
C4_Witness ==
    /\ Succeeded
    /\ nodes_[last.pos].backward_ # {}
    /\ nodes_[last.pos].forward_ # {}

\* The cells whose formula references p directly or through the formulas of
\* other present cells
Referrers(cells, p) ==
    LET rel == References(cells) IN
    {q \in Positions :
        /\ Present(cells, q)
        /\ p \in Closure(rel, {e[2] : e \in {f \in rel : f[1] = q}})}

C6_ClearedReadsZero ==
    (last.op = "ClearCell" /\ last.res = "ok" /\ last.oob # "cell") =>
        \A q \in Positions :
            LET cell == GetConcreteCell(cells_, q) IN
            (cell.kind = "Formula" /\ last.pos \in Range(GetReferencedCells(cell)))
                => CellGetValue(cells_, q, {}).v = Execute(cells_, cell.body, 0, {q}).v

\* C7: GetPrintableSize() is the bounding box of the present slots, (0, 0)
\* if none. Stated as what each call preserves, for the calls that end
\* without a fault and whose reads past the end of cells_ found no cell.
C7_PrintableSizeIsBoundingBox ==
    [][(last'.res \notin Faults /\ last'.oob # "cell"
        /\ printable_size_ = BoundingBox(cells_))
          => printable_size_' = BoundingBox(cells_')]_vars

\* C8: when SetCell(p, t) fails because t references p itself, no state has
\* changed: grid, printable size and graph are those before the call.
C8_SelfReferenceChangesNothing ==
    [][(last'.op = "SetCell" /\ last'.res = "self")
          => /\ cells_' = cells_
             /\ printable_size_' = printable_size_
             /\ nodes_' = nodes_]_vars

\* C9: after SetCell(A1, "=B1"), SetCell(B1, "=C1") and SetCell(C1, "=A1") on
\* a fresh sheet, the third call is rejected, GetCell(C1) returns null and A1
\* and B1 evaluate to 0; and a SetCell rejected for an indirect cycle at a
\* position where no cell was explicitly set leaves that slot absent.
C9_RejectedSlotAbsent ==
    /\ (/\ ops = 3 /\ last.op = "SetCell" /\ last.pos = C1
        /\ last.text = <<FORMULA_SIGN, Ref(A1)>>
        /\ GetText(GetConcreteCell(cells_, A1)) = <<FORMULA_SIGN, Ref(B1)>>
        /\ GetText(GetConcreteCell(cells_, B1)) = <<FORMULA_SIGN, Ref(C1)>>)
       => /\ last.res = "circular"
          /\ ~Present(cells_, C1)
          /\ CellGetValue(cells_, A1, {}).v = NumV(0)
          /\ CellGetValue(cells_, B1, {}).v = NumV(0)
    /\ (Rejected /\ GetConcreteCell(cells_, last.pos).kind \in {"null", "Empty"})
       => ~Present(cells_, last.pos)

\* C9 as amended: after the three calls the third is rejected, GetCell(C1)
\* returns the Empty cell (text "") that SetCell(B1, "=C1") materialized, and
\* A1 and B1 evaluate to 0; and a SetCell rejected for an indirect cycle at p
\* always leaves a cell present at p.
C9_RejectedSlotPresent ==
    /\ (/\ ops = 3 /\ last.op = "SetCell" /\ last.pos = C1
        /\ last.text = <<FORMULA_SIGN, Ref(A1)>>
        /\ GetText(GetConcreteCell(cells_, A1)) = <<FORMULA_SIGN, Ref(B1)>>
        /\ GetText(GetConcreteCell(cells_, B1)) = <<FORMULA_SIGN, Ref(C1)>>)
       => /\ last.res = "circular"
          /\ GetConcreteCell(cells_, C1).kind = "Empty"
          /\ GetText(GetConcreteCell(cells_, C1)) = <<>>
          /\ CellGetValue(cells_, A1, {}).v = NumV(0)
          /\ CellGetValue(cells_, B1, {}).v = NumV(0)
    /\ Rejected => Present(cells_, last.pos)

\* C9 witness: the state after the three calls of the scenario
C9_Witness ==
    /\ ops = 3 /\ Rejected /\ last.pos = C1
    /\ last.text = <<FORMULA_SIGN, Ref(A1)>>
    /\ GetText(GetConcreteCell(cells_, A1)) = <<FORMULA_SIGN, Ref(B1)>>
    /\ GetText(GetConcreteCell(cells_, B1)) = <<FORMULA_SIGN, Ref(C1)>>
    /\ GetConcreteCell(cells_, C1).kind = "Empty"

\* The edge sets left by the successful runs of SetCell(pos, text) on S
EdgesAfter(S, pos, text) ==
    {Edges(o.st.nodes_) : o \in {x \in SetCell(S, pos, text) : x.res = "ok"}}

\* The edge sets left by successful SetCell(pos, t1) then SetCell(pos, t2) on S
EdgesAfterTwo(S, pos, t1, t2) ==
    UNION {EdgesAfter(o.st, pos, t2) : o \in {x \in SetCell(S, pos, t1) : x.res = "ok"}}

\* C10: in every reachable state, two successive successful SetCell calls on
\* the same position (t1 then t2) leave the graph with the edge set that a
\* single successful SetCell with t2 leaves.
C10_LastTextDecidesEdges ==
    last.res \notin Faults =>
        \A pos \in scope.positions, t1 \in scope.texts, t2 \in scope.texts :
            \A two \in EdgesAfterTwo(Cur, pos, t1, t2), one \in EdgesAfter(Cur, pos, t2) :
                two = one

\* C11: every call of SetCell, ClearCell and GetValue terminates in every
\* reachable state, also after a rejected SetCell: neither the cycle probe,
\* nor the ancestor invalidation, nor the evaluation recurses without end.
C11_CallsTerminate ==
    last.res \notin {"overflow_probe", "overflow_reset", "overflow_value"}

\* C12: in every reachable state the forward and backward sets of the graph
\* are mutually consistent: b is in forward_ of a exactly when a is in
\* backward_ of b, and both ends of every edge are nodes of the graph, after
\* every sequence of graph calls issued by SetCell, the rollback included.
C12_ForwardBackwardConsistent ==
    /\ \A a \in DOMAIN nodes_ :
           nodes_[a].forward_ \cup nodes_[a].backward_ \subseteq DOMAIN nodes_
    /\ \A a \in DOMAIN nodes_, b \in DOMAIN nodes_ :
           b \in nodes_[a].forward_ <=> a \in nodes_[b].backward_

\* C12 witness: a SetCell rejected by the probe on a formula cell, so that
\* the old edges were removed, the new ones added and the old ones re-added.
C12_Witness ==
    /\ Rejected
    /\ GetReferencedCells(GetConcreteCell(cells_, last.pos)) # <<>>
    /\ nodes_[last.pos].forward_ # {}
    /\ nodes_[last.pos].backward_ # {}

\* The positions that the cell set from text references directly
DirectReferents(text) == Range(GetReferencedCells(Set(NewCell, text)))

\* C13: after a successful SetCell(p, t) every position directly referenced
\* by t holds a cell; each referent that was absent before the call holds an
\* Empty cell with text ""; and no slot other than p and those previously
\* absent direct referents differs from the grid before the call (nothing
\* is materialized transitively).
C13_OnlyDirectReferentsMaterialized ==
    [][(last'.op = "SetCell" /\ last'.res = "ok")
          => LET refs == DirectReferents(last'.text)
                 absent == {r \in refs : ~Present(cells_, r)}
             IN /\ \A r \in refs : Present(cells_', r)
                /\ \A r \in absent :
                       /\ GetConcreteCell(cells_', r).kind = "Empty"
                       /\ GetText(GetConcreteCell(cells_', r)) = <<>>
                /\ \A q \in Positions \ ({last'.pos} \cup absent) :
                       /\ Present(cells_', q) <=> Present(cells_, q)
                       /\ GetText(GetConcreteCell(cells_', q))
                            = GetText(GetConcreteCell(cells_, q))]_vars

\* C13 witness: B1 = "=A1" with A1 cleared, then SetCell(A2, "=B1+C1")
\* succeeded: C1, absent before, holds an Empty cell, B1 is as it was, and
\* A1, referenced by B1 only, is still absent.
C13_Witness ==
    /\ Succeeded /\ last.pos = A2
    /\ last.text = <<FORMULA_SIGN, Ref(B1), Ref(C1)>>
    /\ GetText(GetConcreteCell(cells_, B1)) = <<FORMULA_SIGN, Ref(A1)>>
    /\ GetConcreteCell(cells_, C1) = NewCell
    /\ ~Present(cells_, A1)

\* C14: ClearCell(p) leaves the node set and the edge set of the graph
\* unchanged and every slot of the grid other than p unchanged; slot p is
\* absent after the call (the printable size may change).
C14_ClearCellTouchesOneSlot ==
    [][(last'.op = "ClearCell" /\ last'.res = "ok")
          => /\ nodes_' = nodes_
             /\ ~Present(cells_', last'.pos)
             /\ \A q \in Positions \ {last'.pos} :
                    GetConcreteCell(cells_', q) = GetConcreteCell(cells_, q)]_vars

\* C14 witness: ClearCell(p) returned on a position whose node has edges in
\* both directions, with other cells present in the grid.
C14_Witness ==
    /\ last.op = "ClearCell" /\ last.res = "ok"
    /\ ~Present(cells_, last.pos)
    /\ Contains(nodes_, last.pos)
    /\ nodes_[last.pos].forward_ # {}
    /\ nodes_[last.pos].backward_ # {}
    /\ \E q \in Positions : Present(cells_, q)

\* C15: a SetCell(p, t) that follows a ClearCell(p) completes: the graph has
\* a node at p only while a cell is present at p, so the assertion on the old
\* cell (line 164) does not fail. Stated for a ClearCell whose reads past
\* the end of cells_, if any, found no cell.
C15_SetAfterClearCompletes ==
    [][(/\ last.op = "ClearCell" /\ last.res = "ok" /\ last.oob # "cell"
        /\ last'.op = "SetCell" /\ last'.pos = last.pos)
          => last'.res # "assert_old_cell"]_vars

\* ------------------------------------------------------- graph traversals
\* The two traversals of DependencyGraph called on graphs of their own: every
\* graph that AddCell and AddDependency build over GraphPositions with at
\* most MaxEdges edges.

\* Largest number of edges of the graphs the traversals are called on.
MaxEdges == 5

GraphPositions == {A1, B1, C1, A2}

RECURSIVE BuildGraph(_, _)

\* AddDependency(from, to) for every pair of `edges`
BuildGraph(nodes, edges) ==
    IF edges = {} THEN nodes
    ELSE LET e == CHOOSE x \in edges : TRUE
         IN BuildGraph(AddDependency(nodes, e[1], e[2]), edges \ {e})

\* AddCell for every position of GraphPositions, then the edges
Graphs ==
    {BuildGraph([p \in GraphPositions |-> Node(p)], edges) :
        edges \in {x \in SUBSET (GraphPositions \X GraphPositions) :
                     Cardinality(x) <= MaxEdges}}

\* The last call of a traversal: the node it started at, how it ended, and
\* the positions the visitor was invoked on, in order
GraphCall(op, pos, res, calls) ==
    [op |-> op, pos |-> pos, res |-> res, calls |-> calls]

InitGraph ==
    /\ cells_ = <<>>
    /\ printable_size_ = Size(0, 0)
    /\ nodes_ \in Graphs
    /\ last = GraphCall("AddDependency", A1, "ok", <<>>)
    /\ ops = 0
    /\ scope = [positions |-> GraphPositions, texts |-> {}, maxops |-> 0]

\* A call of graph.CheckCyclicDependencies(p)
CheckCyclicDependenciesCall ==
    /\ last.res # "overflow"
    /\ \E p \in DOMAIN nodes_ :
         \E r \in CheckCyclicDependencies(nodes_, p) :
             last' = GraphCall("CheckCyclicDependencies", p, r, <<>>)
    /\ UNCHANGED <<cells_, printable_size_, nodes_, ops, scope>>

\* A call of graph.ResetCache(p, visitor) with a visitor that records the
\* position it is invoked on
ResetCacheCall ==
    /\ last.res # "overflow"
    /\ \E p \in DOMAIN nodes_ :
         \E run \in GraphResetCache(nodes_, p) :
             last' = GraphCall("ResetCache", p, run.r, run.calls)
    /\ UNCHANGED <<cells_, printable_size_, nodes_, ops, scope>>

NextGraph == CheckCyclicDependenciesCall \/ ResetCacheCall

SpecGraph == InitGraph /\ [][NextGraph]_vars

\* C16: on every directed graph and every node p of it,
\* CheckCyclicDependencies(p) terminates and returns true exactly when no
\* directed cycle passes through p, also when a cycle that does not pass
\* through p can be reached from p.
C16_ProbeDecidesCycleThrough ==
    last.op = "CheckCyclicDependencies" =>
        /\ last.res # "overflow"
        /\ last.res = "true" <=> ~CycleThrough(Edges(nodes_), last.pos)

\* The nodes from which p is reached along forward edges
Ancestors(rel, p) ==
    {q \in GraphPositions : p \in Closure(rel, {e[2] : e \in {f \in rel : f[1] = q}})}

\* C17: on every directed graph, self-loops and diamonds included, and every
\* node p of it, ResetCache(p, visitor) terminates and has invoked the
\* visitor on p and on every node from which p is reachable along forward
\* edges, on no other node, and on none twice.
C17_ResetVisitsAncestorsOnce ==
    last.op = "ResetCache" =>
        /\ last.res = "done"
        /\ Range(last.calls) = {last.pos} \cup Ancestors(Edges(nodes_), last.pos)
        /\ Len(last.calls) = Cardinality(Range(last.calls))

\* -------------------------------------------------------------- Cell calls
\* Cell::Set and Cell::GetValue called on one Cell object: the cell at A2 of
\* a sheet whose A1 holds a number.

\* Texts passed to Cell::Set: "", "2", "10", "'2", "=A1+3", "=A1".
CellTexts ==
    {<<>>, <<Num(2)>>, <<Num(10)>>, <<ESCAPE_SIGN, Num(2)>>,
     <<FORMULA_SIGN, Ref(A1), Num(3)>>, <<FORMULA_SIGN, Ref(A1)>>}

\* The sheets after SetCell(A1, t) and SetCell(A2, "") on a fresh sheet
CellSheets ==
    UNION {{o2.st : o2 \in SetCell(o1.st, A2, <<>>)} :
             o1 \in UNION {SetCell(Sheet(<<>>, Size(0, 0), <<>>), A1, t) :
                             t \in {<<Num(2)>>, <<Num(10)>>}}}

\* The last call on a cell: the text passed to Set, the value GetValue
\* returned
CellCall(op, pos, text, v) == [op |-> op, pos |-> pos, text |-> text, v |-> v]

InitCell ==
    /\ \E S \in CellSheets :
         /\ cells_ = S.cells_
         /\ printable_size_ = S.printable_size_
         /\ nodes_ = S.nodes_
    /\ last = CellCall("Cell", A2, <<>>, StrV(<<>>))
    /\ ops = 0
    /\ scope = [positions |-> {A1, A2}, texts |-> CellTexts, maxops |-> 0]

\* A call of Set(text) on the cell at A2
CellSetCall ==
    /\ \E text \in CellTexts :
         /\ cells_' = [cells_ EXCEPT ![A2.row + 1][A2.col + 1] = Set(@, text)]
         /\ last' = CellCall("Set", A2, text, StrV(<<>>))
    /\ UNCHANGED <<printable_size_, nodes_, ops, scope>>

\* A call of GetValue() on the cell at A1 or A2
CellGetValueCall ==
    /\ \E pos \in {A1, A2} :
         LET g == CellGetValue(cells_, pos, {}) IN
         /\ cells_' = g.cells
         /\ last' = CellCall("GetValue", pos, <<>>, g.v)
    /\ UNCHANGED <<printable_size_, nodes_, ops, scope>>

NextCell == CellSetCall \/ CellGetValueCall

SpecCell == InitCell /\ [][NextCell]_vars

\* The value the Impl of the cell at pos computes (Impl::GetValue)
ImplGetValue(cells, pos) ==
    CellGetValue([cells EXCEPT ![pos.row + 1][pos.col + 1] = ResetCache(@)], pos, {}).v

\* C18: Cell::Set(text) leaves the value cache of the cell empty: the
\* GetValue that follows a Set returns the value of the new content, also for
\* a cell whose value had been cached by GetValue.
C18_SetEmptiesCache ==
    last.op = "Set" =>
        CellGetValue(cells_, last.pos, {}).v = ImplGetValue(cells_, last.pos)

\* C19: during the ancestor invalidation of a SetCell(p, t) every position
\* visited holds a cell, so the assertion of the reseter (line 202) does not
\* fail, also after a referrer of p was removed with ClearCell. Stated for a
\* SetCell that follows a call whose reads past the end of cells_, if any,
\* found no cell.
C19_ReseterFindsCells ==
    [][(last.oob # "cell" /\ last'.op = "SetCell")
          => last'.res # "assert_reseter"]_vars

\* C20: ClearCell reads no row of cells_ out of range: every row index r of
\* its rescan satisfies 0 <= r < cells_.size().
C20_RescanInRange ==
    last.op = "ClearCell" => last.oob = "none"

====
